---- MODULE Spec2Model ----
(***************************************************************************)
(* Model of the fbox crate (src/src/lib.rs): FBox, a boxed unary function  *)
(* with the invocations apply / apply_drop and the composition operators   *)
(* compose, and_then, compose_b, and_then_b.                               *)
(*                                                                         *)
(* A callable is a tree: a leaf is a function handed to the crate by its   *)
(* user, an inner node is one of the four `move |x| ...` closures the      *)
(* crate builds, capturing the two callables it will call.  Every value is *)
(* an i32, as in the crate's tests and doc examples.                       *)
(***************************************************************************)
EXTENDS Integers, Sequences, FiniteSets, TLC

MaxBoxes == 3       \* boxes ever constructed in one run
MaxCalls == 4       \* callable invocations counted in one run

I32Max == 2147483647
I32Min == -2147483647 - 1

\* Arguments of apply / apply_drop: the 3 of the doc examples, and a value
\* whose square does not fit an i32
Inputs == {3, 65536}

\* The functions the user wraps: |x| x + 1 and |x| x * x of the doc examples
Fns == {"inc", "sq"}

VARIABLES
    boxes,            \* every FBox constructed so far: its lifecycle state and its field f
    last,             \* the last operation called, with its argument, result and call trace
    ncalls,           \* how many times a wrapped callable has been invoked so far
    overflow_checks   \* build profile: TRUE panics on i32 overflow, FALSE wraps

vars == <<boxes, last, ncalls, overflow_checks>>

----------------------------------------------------------------------------
\* Results of a call: a returned value or a panic unwinding to the caller.

Ok(v) == [ok |-> TRUE, val |-> v, panic |-> ""]
Panic(msg) == [ok |-> FALSE, val |-> 0, panic |-> msg]

\* The low 16 bits of p * q, for p, q in 0..65535
Mul16(p, q) ==
    ((p % 256) * q + (((p \div 256) * q) % 256) * 256) % 65536

\* x * y modulo 2^32 as an i32 (two's complement), computed on 16-bit
\* halves so that no intermediate value leaves the i32 range
WrappingMul(x, y) ==
    LET xl == x % 65536
        xh == (x \div 65536) % 65536
        yl == y % 65536
        yh == (y \div 65536) % 65536
        c  == ((xl \div 256) * yl) \div 256
        d  == ((xl \div 256) * yl) % 256
        t  == d * 256 + (xl % 256) * yl
        lo == t % 65536
        hi == (c + (t \div 65536) + Mul16(xh, yl) + Mul16(xl, yh)) % 65536
    IN  IF hi < 32768 THEN hi * 65536 + lo ELSE (hi - 65536) * 65536 + lo

\* x + 1 on i32: overflow panics when overflow checks are on, wraps otherwise
AddOne(x) ==
    IF x < I32Max THEN Ok(x + 1)
    ELSE IF overflow_checks THEN Panic("attempt to add with overflow")
    ELSE Ok(I32Min)

\* x * x on i32: overflow panics when overflow checks are on, wraps otherwise
Square(x) ==
    IF x >= -46340 /\ x <= 46340 THEN Ok(x * x)
    ELSE IF overflow_checks THEN Panic("attempt to multiply with overflow")
    ELSE Ok(WrappingMul(x, x))

\* The body of a user function
FnBody(fn, x) ==
    CASE fn = "inc" -> AddOne(x)
      [] fn = "sq"  -> Square(x)

----------------------------------------------------------------------------
\* Callables

NoClosure == [kind |-> "moved", fn |-> "", kids |-> <<>>]

\* a user function as a callable value
Fn(fn) == [kind |-> "fn", fn |-> fn, kids |-> <<>>]

\* one invocation of a user function, as recorded in a call trace
Invocation(path, fn, x, o) == [path |-> path, fn |-> fn, arg |-> x, out |-> o]

RECURSIVE Call(_, _, _)

\* Mutant of compose_closure: self.f is called before g
compose_closure_swapped(c, x, path) ==
    LET inner == Call(c.kids[1], x, path \o <<1>>) IN
    IF ~inner.out.ok THEN inner
    ELSE LET outer == Call(c.kids[2], inner.out.val, path \o <<2>>) IN
         [out |-> outer.out, trace |-> inner.trace \o outer.trace]

\* Mutant of compose_closure: g(x) is evaluated a second time
compose_closure_twice(c, x, path) ==
    LET inner == Call(c.kids[2], x, path \o <<2>>) IN
    IF ~inner.out.ok THEN inner
    ELSE LET outer == Call(c.kids[1], inner.out.val, path \o <<1>>) IN
         [out |-> outer.out, trace |-> inner.trace \o inner.trace \o outer.trace]

\* move |x| (self.f)(g(x))           kids = <<self.f, g>>
compose_closure(c, x, path) ==
    LET inner == Call(c.kids[2], x, path \o <<2>>) IN
    IF ~inner.out.ok THEN inner
    ELSE LET outer == Call(c.kids[1], inner.out.val, path \o <<1>>) IN
         [out |-> outer.out, trace |-> inner.trace \o outer.trace]

\* Mutant of and_then_closure: g is never called
and_then_closure_self_only(c, x, path) ==
    Call(c.kids[1], x, path \o <<1>>)

\* Mutant of and_then_closure: g is called before self.f
and_then_closure_swapped(c, x, path) ==
    LET inner == Call(c.kids[2], x, path \o <<2>>) IN
    IF ~inner.out.ok THEN inner
    ELSE LET outer == Call(c.kids[1], inner.out.val, path \o <<1>>) IN
         [out |-> outer.out, trace |-> inner.trace \o outer.trace]

\* move |x| g((self.f)(x))           kids = <<self.f, g>>
and_then_closure(c, x, path) ==
    LET inner == Call(c.kids[1], x, path \o <<1>>) IN
    IF ~inner.out.ok THEN inner
    ELSE LET outer == Call(c.kids[2], inner.out.val, path \o <<2>>) IN
         [out |-> outer.out, trace |-> inner.trace \o outer.trace]

\* Mutant of compose_b_closure: self.f is called before other.f
compose_b_closure_swapped(c, x, path) ==
    LET inner == Call(c.kids[1], x, path \o <<1>>) IN
    IF ~inner.out.ok THEN inner
    ELSE LET outer == Call(c.kids[2], inner.out.val, path \o <<2>>) IN
         [out |-> outer.out, trace |-> inner.trace \o outer.trace]

\* move |x| (self.f)((other.f)(x))   kids = <<self.f, other.f>>
compose_b_closure(c, x, path) ==
    LET inner == Call(c.kids[2], x, path \o <<2>>) IN
    IF ~inner.out.ok THEN inner
    ELSE LET outer == Call(c.kids[1], inner.out.val, path \o <<1>>) IN
         [out |-> outer.out, trace |-> inner.trace \o outer.trace]

\* Mutant of and_then_b_closure: a panic of self.f is caught and other.f
\* is called on the default value
and_then_b_closure_catch(c, x, path) ==
    LET inner == Call(c.kids[1], x, path \o <<1>>)
        outer == Call(c.kids[2], IF inner.out.ok THEN inner.out.val ELSE 0,
                      path \o <<2>>)
    IN  [out |-> outer.out, trace |-> inner.trace \o outer.trace]

\* move |x| (other.f)((self.f)(x))   kids = <<self.f, other.f>>
and_then_b_closure(c, x, path) ==
    LET inner == Call(c.kids[1], x, path \o <<1>>) IN
    IF ~inner.out.ok THEN inner
    ELSE LET outer == Call(c.kids[2], inner.out.val, path \o <<2>>) IN
         [out |-> outer.out, trace |-> inner.trace \o outer.trace]

\* Calling the callable c with argument x.  path is the position of c in
\* the callable the box holds.  The result is the outcome and the
\* invocations of user functions made, in order.
Call(c, x, path) ==
    CASE c.kind = "fn" ->
            LET o == FnBody(c.fn, x) IN
            [out |-> o, trace |-> <<Invocation(path, c.fn, x, o)>>]
      [] c.kind = "compose"    -> compose_closure(c, x, path)
      [] c.kind = "and_then"   -> and_then_closure(c, x, path)
      [] c.kind = "compose_b"  -> compose_b_closure(c, x, path)
      [] c.kind = "and_then_b" -> and_then_b_closure(c, x, path)

----------------------------------------------------------------------------
\* FBox and its methods, as functions of values

FBox(f) == [f |-> f]

new(f) == FBox(f)

apply(self, a) == Call(self.f, a, <<>>)

\* Mutant of apply_drop: a composed box dispatches to the callable it was
\* composed from instead of the one it stores
apply_drop_stale(self, a) ==
    IF self.f.kind = "fn" THEN Call(self.f, a, <<>>)
    ELSE Call(self.f.kids[1], a, <<1>>)

apply_drop(self, a) == Call(self.f, a, <<>>)

compose(self, g) ==
    new([kind |-> "compose", fn |-> "", kids |-> <<self.f, g>>])

and_then(self, g) ==
    new([kind |-> "and_then", fn |-> "", kids |-> <<self.f, g>>])

compose_b(self, other) ==
    new([kind |-> "compose_b", fn |-> "", kids |-> <<self.f, other.f>>])

and_then_b(self, other) ==
    new([kind |-> "and_then_b", fn |-> "", kids |-> <<self.f, other.f>>])

----------------------------------------------------------------------------
\* The program: a client that constructs, composes and invokes boxes.

Live(i) == i \in 1..Len(boxes) /\ boxes[i].st = "live"

\* the FBox value held in slot i
BoxAt(i) == FBox(boxes[i].f)

\* slot of a box that has been moved out of
Consumed == [st |-> "consumed", f |-> NoClosure]

Slot(b) == [st |-> "live", f |-> b.f]

Op(op, self, other, a, f, r) ==
    [op |-> op, self |-> self, other |-> other, arg |-> a, f |-> f,
     out |-> r.out, trace |-> r.trace]

Built == [out |-> Ok(0), trace |-> <<>>]

Init ==
    /\ boxes = <<>>
    /\ last = Op("none", 0, 0, 0, NoClosure, Built)
    /\ ncalls = 0
    /\ overflow_checks \in BOOLEAN

\* let b = FBox::new(f);
New(fn) ==
    /\ Len(boxes) < MaxBoxes
    /\ LET b == new(Fn(fn)) IN
       /\ boxes' = Append(boxes, Slot(b))
       /\ last' = Op("new", 0, 0, 0, b.f, Built)
    /\ UNCHANGED <<ncalls, overflow_checks>>

\* Mutant of Apply: the box is moved into the call
ApplyConsumes(i, a) ==
    /\ Live(i)
    /\ LET r == apply(BoxAt(i), a) IN
       /\ ncalls + Len(r.trace) <= MaxCalls
       /\ ncalls' = ncalls + Len(r.trace)
       /\ last' = Op("apply", i, 0, a, boxes[i].f, r)
    /\ boxes' = [boxes EXCEPT ![i] = Consumed]
    /\ UNCHANGED overflow_checks

\* let r = boxes[i].apply(a);
Apply(i, a) ==
    /\ Live(i)
    /\ LET r == apply(BoxAt(i), a) IN
       /\ ncalls + Len(r.trace) <= MaxCalls
       /\ ncalls' = ncalls + Len(r.trace)
       /\ last' = Op("apply", i, 0, a, boxes[i].f, r)
    /\ UNCHANGED <<boxes, overflow_checks>>

\* Mutant of ApplyDrop: the box is only borrowed
ApplyDropKeeps(i, a) ==
    /\ Live(i)
    /\ LET r == apply_drop(BoxAt(i), a) IN
       /\ ncalls + Len(r.trace) <= MaxCalls
       /\ ncalls' = ncalls + Len(r.trace)
       /\ last' = Op("apply_drop", i, 0, a, boxes[i].f, r)
    /\ UNCHANGED <<boxes, overflow_checks>>

\* let r = boxes[i].apply_drop(a);
ApplyDrop(i, a) ==
    /\ Live(i)
    /\ LET r == apply_drop(BoxAt(i), a) IN
       /\ ncalls + Len(r.trace) <= MaxCalls
       /\ ncalls' = ncalls + Len(r.trace)
       /\ last' = Op("apply_drop", i, 0, a, boxes[i].f, r)
    /\ boxes' = [boxes EXCEPT ![i] = Consumed]
    /\ UNCHANGED overflow_checks

\* Mutant of Compose: g is called once while the box is built
ComposeEager(i, fn) ==
    /\ Live(i)
    /\ Len(boxes) < MaxBoxes
    /\ ncalls < MaxCalls
    /\ LET b == compose(BoxAt(i), Fn(fn)) IN
       /\ boxes' = Append([boxes EXCEPT ![i] = Consumed], Slot(b))
       /\ last' = Op("compose", i, 0, 0, b.f, Built)
    /\ ncalls' = ncalls + 1
    /\ UNCHANGED overflow_checks

\* let b = boxes[i].compose(g);
Compose(i, fn) ==
    /\ Live(i)
    /\ Len(boxes) < MaxBoxes
    /\ LET b == compose(BoxAt(i), Fn(fn)) IN
       /\ boxes' = Append([boxes EXCEPT ![i] = Consumed], Slot(b))
       /\ last' = Op("compose", i, 0, 0, b.f, Built)
    /\ UNCHANGED <<ncalls, overflow_checks>>

\* let b = boxes[i].and_then(g);
AndThen(i, fn) ==
    /\ Live(i)
    /\ Len(boxes) < MaxBoxes
    /\ LET b == and_then(BoxAt(i), Fn(fn)) IN
       /\ boxes' = Append([boxes EXCEPT ![i] = Consumed], Slot(b))
       /\ last' = Op("and_then", i, 0, 0, b.f, Built)
    /\ UNCHANGED <<ncalls, overflow_checks>>

\* let b = boxes[i].compose_b(boxes[j]);
ComposeB(i, j) ==
    /\ Live(i) /\ Live(j) /\ i # j
    /\ Len(boxes) < MaxBoxes
    /\ LET b == compose_b(BoxAt(i), BoxAt(j)) IN
       /\ boxes' = Append([boxes EXCEPT ![i] = Consumed, ![j] = Consumed], Slot(b))
       /\ last' = Op("compose_b", i, j, 0, b.f, Built)
    /\ UNCHANGED <<ncalls, overflow_checks>>

\* let b = boxes[i].and_then_b(boxes[j]);
AndThenB(i, j) ==
    /\ Live(i) /\ Live(j) /\ i # j
    /\ Len(boxes) < MaxBoxes
    /\ LET b == and_then_b(BoxAt(i), BoxAt(j)) IN
       /\ boxes' = Append([boxes EXCEPT ![i] = Consumed, ![j] = Consumed], Slot(b))
       /\ last' = Op("and_then_b", i, j, 0, b.f, Built)
    /\ UNCHANGED <<ncalls, overflow_checks>>

Next ==
    \/ \E fn \in Fns : New(fn)
    \/ \E i \in 1..MaxBoxes, a \in Inputs : Apply(i, a)
    \/ \E i \in 1..MaxBoxes, a \in Inputs : ApplyDrop(i, a)
    \/ \E i \in 1..MaxBoxes, fn \in Fns : Compose(i, fn)
    \/ \E i \in 1..MaxBoxes, fn \in Fns : AndThen(i, fn)
    \/ \E i \in 1..MaxBoxes, j \in 1..MaxBoxes : ComposeB(i, j)
    \/ \E i \in 1..MaxBoxes, j \in 1..MaxBoxes : AndThenB(i, j)

Spec == Init /\ [][Next]_vars

----------------------------------------------------------------------------
\* Vocabulary of the properties

Invoking == {"apply", "apply_drop"}
Composing == {"compose", "and_then", "compose_b", "and_then_b"}
Consuming == Composing \cup {"apply_drop"}

IsFn(c) == c.kind = "fn"

\* what the last invocation returned to its caller
Returned == [out |-> last.out, trace |-> last.trace]

\* fn(r) in Rust: fn is not called when computing its argument panicked
Then(r, fn) == IF r.ok THEN FnBody(fn, r.val) ELSE r

\* the names of the user functions invoked by the last operation, in order
Order == [m \in 1..Len(last.trace) |-> last.trace[m].fn]

Prefix(s, n) == SubSeq(s, 1, IF n < Len(s) THEN n ELSE Len(s))

RECURSIVE NodeAt(_, _)
\* the callable at position path of the callable c
NodeAt(c, path) ==
    IF path = <<>> THEN c ELSE NodeAt(c.kids[Head(path)], Tail(path))

\* the first position at which the paths p and q differ
Fork(p, q) ==
    CHOOSE k \in 1..Len(p) :
        /\ k <= Len(q)
        /\ p[k] # q[k]
        /\ \A h \in 1..(k - 1) : p[h] = q[h]

----------------------------------------------------------------------------
\* C1: apply and apply_drop return the same output for the same box and the
\* same input: whatever apply returned, apply_drop of that box returns too,
\* whatever apply_drop returned, apply of the callable it held returns too,
\* and the two agree on every live box and every input.
C1_ApplyDropEqualsApply ==
    /\ last.op = "apply" =>
          /\ Live(last.self)
          /\ apply_drop(BoxAt(last.self), last.arg) = Returned
    /\ last.op = "apply_drop" =>
          apply(FBox(last.f), last.arg) = Returned
    /\ \A i \in 1..Len(boxes), a \in Inputs :
          Live(i) => apply(BoxAt(i), a).out = apply_drop(BoxAt(i), a).out

\* apply_drop has just returned 10 from a box composed of x + 1 and x * x
C1_Witness ==
    /\ last.op = "apply_drop"
    /\ last.f.kind = "compose"
    /\ last.arg = 3
    /\ last.out = Ok(10)
    /\ boxes[last.self].st = "consumed"

\* C2: FBox::new(f).compose(g).apply(x) is f(g(x)): g is called first, on x,
\* and f on what g returned.
C2_ComposeIsFAfterG ==
    (/\ last.op = "apply"
     /\ last.f.kind = "compose"
     /\ IsFn(last.f.kids[1])
     /\ IsFn(last.f.kids[2]))
    => LET f == last.f.kids[1].fn
           g == last.f.kids[2].fn
       IN  /\ last.out = Then(FnBody(g, last.arg), f)
           /\ Order = Prefix(<<g, f>>, Len(Order))
           /\ last.trace[1].arg = last.arg

\* box(x + 1).compose(x * x).apply(3) has returned 10
C2_Witness ==
    /\ last.op = "apply"
    /\ last.f = compose(new(Fn("inc")), Fn("sq")).f
    /\ last.arg = 3
    /\ last.out = Ok(10)

\* C3: FBox::new(f).and_then(g).apply(x) is g(f(x)): f is called first, on x,
\* and g on what f returned.
C3_AndThenIsGAfterF ==
    (/\ last.op = "apply"
     /\ last.f.kind = "and_then"
     /\ IsFn(last.f.kids[1])
     /\ IsFn(last.f.kids[2]))
    => LET f == last.f.kids[1].fn
           g == last.f.kids[2].fn
       IN  /\ last.out = Then(FnBody(f, last.arg), g)
           /\ Order = Prefix(<<f, g>>, Len(Order))
           /\ last.trace[1].arg = last.arg

\* box(x + 1).and_then(x * x).apply(3) has returned 16
C3_Witness ==
    /\ last.op = "apply"
    /\ last.f = and_then(new(Fn("inc")), Fn("sq")).f
    /\ last.arg = 3
    /\ last.out = Ok(16)

\* C4: a box built by compose_b / and_then_b from the boxes self and other
\* returns, and invokes in the same order, what the box built by compose /
\* and_then from self and other's callable does.
C4_BoxedOperandSameAsRaw ==
    /\ (last.op = "apply" /\ last.f.kind = "compose_b") =>
          Returned = apply(compose(FBox(last.f.kids[1]), last.f.kids[2]), last.arg)
    /\ (last.op = "apply" /\ last.f.kind = "and_then_b") =>
          Returned = apply(and_then(FBox(last.f.kids[1]), last.f.kids[2]), last.arg)

\* box(x + 1).compose_b(box(x * x)).apply(3) has returned 10
C4_Witness ==
    /\ last.op = "apply"
    /\ last.f = compose_b(new(Fn("inc")), new(Fn("sq"))).f
    /\ last.arg = 3
    /\ last.out = Ok(10)

\* C5: no callable has been invoked when the program starts, and the number
\* of invocations changes only in a step that is an apply or an apply_drop:
\* new and the four composition operators invoke nothing.
C5_Lazy ==
    /\ ncalls = 0
    /\ [][ncalls' # ncalls => last'.op \in Invoking]_vars

\* a box was constructed and composed twice, and nothing has been invoked
C5_Witness ==
    /\ Len(boxes) = 3
    /\ last.op = "and_then"
    /\ last.f.kids[1].kind = "compose"
    /\ ncalls = 0

\* C6: in one apply / apply_drop, no constituent function is invoked twice,
\* and of two invoked functions the one invoked first is, at the closure
\* where their positions part, the operand for compose / compose_b and self
\* for and_then / and_then_b.
C6_FixedOrderAtMostOnce ==
    last.op \in Invoking =>
        \A m \in 1..Len(last.trace), n \in 1..Len(last.trace) :
            m < n =>
                LET p == last.trace[m].path
                    q == last.trace[n].path
                IN  /\ p # q
                    /\ IsFn(NodeAt(last.f, p))
                    /\ IsFn(NodeAt(last.f, q))
                    /\ LET k == Fork(p, q)
                           node == NodeAt(last.f, SubSeq(p, 1, k - 1))
                       IN  IF node.kind \in {"compose", "compose_b"}
                           THEN p[k] = 2 /\ q[k] = 1
                           ELSE p[k] = 1 /\ q[k] = 2

\* a box built by and_then and then compose has invoked its three functions
C6_Witness ==
    /\ last.op \in Invoking
    /\ last.f.kind = "compose"
    /\ last.f.kids[1].kind = "and_then"
    /\ Len(last.trace) = 3

\* C7: a box is live or consumed; a consumed box stays consumed; every
\* operation is called on live boxes; apply_drop and the composition
\* operators consume self, compose_b and and_then_b consume other too, and
\* nothing else is consumed; apply consumes nothing.
C7_Lifecycle ==
    /\ [](\A i \in 1..Len(boxes) : boxes[i].st \in {"live", "consumed"})
    /\ [][/\ \A i \in 1..Len(boxes) :
                /\ boxes[i].st = "consumed" => boxes'[i].st = "consumed"
                /\ (boxes[i].st = "live" /\ boxes'[i].st = "consumed") =>
                      /\ last'.op \in Consuming
                      /\ \/ i = last'.self
                         \/ last'.op \in {"compose_b", "and_then_b"} /\ i = last'.other
          /\ last'.op \in Consuming =>
                /\ Live(last'.self)
                /\ boxes'[last'.self].st = "consumed"
          /\ last'.op \in {"compose_b", "and_then_b"} =>
                /\ Live(last'.other)
                /\ boxes'[last'.other].st = "consumed"
          /\ last'.op = "apply" =>
                /\ Live(last'.self)
                /\ boxes'[last'.self].st = "live"
      ]_vars

\* two boxes were consumed by compose_b, and the box it built, after an
\* apply, by apply_drop
C7_Witness ==
    /\ Len(boxes) = 3
    /\ last.op = "apply_drop"
    /\ last.self = 3
    /\ last.f.kind = "compose_b"
    /\ ncalls = 4
    /\ \A i \in 1..3 : boxes[i].st = "consumed"

\* C8: apply leaves every box as it was, the box it was called on is live
\* and holds the same callable afterwards, calling apply again with the same
\* input returns the same output, and so did the call before it.
C8_ApplyRepeatable ==
    /\ [](last.op = "apply" =>
            /\ Live(last.self)
            /\ boxes[last.self].f = last.f
            /\ apply(BoxAt(last.self), last.arg).out = last.out)
    /\ [][last'.op = "apply" =>
            /\ boxes' = boxes
            /\ (last.op = "apply" /\ last.self = last'.self /\ last.arg = last'.arg)
                  => last'.out = last.out
      ]_vars

\* the only box, holding x * x, is live after three calls of apply
C8_Witness ==
    /\ Len(boxes) = 1
    /\ boxes[1].st = "live"
    /\ last.op = "apply"
    /\ last.f = Fn("sq")
    /\ last.out = Ok(9)
    /\ ncalls = 3

\* C9: box(f).and_then(g).and_then(h).apply(x) is h(g(f(x))), and f is
\* invoked before g and g before h.
C9_ChainLeftToRight ==
    (/\ last.op = "apply"
     /\ last.f.kind = "and_then"
     /\ last.f.kids[1].kind = "and_then"
     /\ IsFn(last.f.kids[1].kids[1])
     /\ IsFn(last.f.kids[1].kids[2])
     /\ IsFn(last.f.kids[2]))
    => LET f == last.f.kids[1].kids[1].fn
           g == last.f.kids[1].kids[2].fn
           h == last.f.kids[2].fn
       IN  /\ last.out = Then(Then(FnBody(f, last.arg), g), h)
           /\ Order = Prefix(<<f, g, h>>, Len(Order))
           /\ last.trace[1].arg = last.arg

\* box(x + 1).and_then(x * x).and_then(x + 1).apply(3) has returned 17
C9_Witness ==
    /\ last.op = "apply"
    /\ last.f = and_then(and_then(new(Fn("inc")), Fn("sq")), Fn("inc")).f
    /\ last.arg = 3
    /\ last.out = Ok(17)

\* C10: new and the composition operators return a box; what apply /
\* apply_drop gives its caller is the outcome of the last function invoked,
\* and a function that panicked is the last one invoked: its panic reaches
\* the caller as it is.
C10_FailurePassesThrough ==
    /\ last.op \in Composing \cup {"new"} =>
          /\ last.out.ok
          /\ Live(Len(boxes))
          /\ boxes[Len(boxes)].f = last.f
    /\ last.op \in Invoking =>
          /\ Len(last.trace) >= 1
          /\ last.out = last.trace[Len(last.trace)].out
          /\ \A m \in 1..(Len(last.trace) - 1) : last.trace[m].out.ok

\* a box built by and_then_b has passed on the overflow panic of its first
\* function without invoking the second
C10_Witness ==
    /\ last.op \in Invoking
    /\ last.f.kind = "and_then_b"
    /\ ~last.out.ok
    /\ last.out.panic = "attempt to multiply with overflow"
    /\ Len(last.trace) = 1

TypeOK ==
    /\ Len(boxes) <= MaxBoxes
    /\ \A i \in 1..Len(boxes) : boxes[i].st \in {"live", "consumed"}
    /\ ncalls \in 0..MaxCalls
====
